---- MODULE Spec2Model ----
(***************************************************************************)
(* Model of django_lockmin.admin.AdminLockingMixin: the per-record lock    *)
(* (the foreign key named by `user_field`), the lock / unlock admin        *)
(* actions, the change view that acquires on first touch, and the unlock   *)
(* permission that get_model_perms bootstraps.                             *)
(*                                                                         *)
(* Users are their ids 1..NumActors, records their primary keys            *)
(* 1..NumRecords; Python's None is 0.                                      *)
(***************************************************************************)
EXTENDS Integers, FiniteSets, Sequences, TLC

NumActors == 2
NumRecords == 2
MaxQuota == 2

None == 0

Actors == 1..NumActors
Records == 1..NumRecords

\* Names a model may give a foreign key to User: the default ("user") and one
\* other name a project could configure as `user_field`.
FieldNames == {"user", "owner"}

VARIABLES
    user_field,                       \* configuration: name of the holder field
    model_fields,                     \* the User foreign keys the model declares
    allow_view_permissions,           \* configuration
    max_records_lockable,             \* configuration
    unlock_record_action_permission,  \* configuration: codename, "" for None
    reference_is_str,                 \* whether model_reference_key yields str
    records,                          \* the table: pk -> field name -> user id
    permission_rows,                  \* Permission rows with the full codename
    user_perms,                       \* users granted the unlock permission
    allowed_permissions,              \* AdminLockingMixin.unlock_record.allowed_permissions
    last,                             \* the last request and its response
    session,                          \* each user's change_view in progress
    locking_help,                     \* configuration: a help text is set
    setup,                            \* how __init__ ended: "pending", "ok", or its error
    bootstrap,                        \* each user's _set_unlock_permission in progress
    message_seen                      \* users whose session has "message_seen"

config == <<user_field, model_fields, allow_view_permissions,
            max_records_lockable, unlock_record_action_permission,
            reference_is_str, locking_help>>

vars == <<user_field, model_fields, allow_view_permissions,
          max_records_lockable, unlock_record_action_permission,
          reference_is_str, records, permission_rows, user_perms,
          allowed_permissions, last, session, locking_help, setup,
          bootstrap, message_seen>>

----------------------------------------------------------------------------
\* Responses

Response(op, actor, targets, outcome, message, location) ==
    [op |-> op, actor |-> actor, targets |-> targets, outcome |-> outcome,
     message |-> message, location |-> location]

NoRequest == Response("none", None, {}, "", "", None)

IdleSession == [at |-> "idle", obj |-> None, user |-> None, outcome |-> ""]

\* No _set_unlock_permission call in progress; `count` is the row count read.
IdleBootstrap == [at |-> "idle", count |-> 0, outcome |-> ""]

\* getattr(obj, self.user_field), on a given table
HolderIn(recs, r) == recs[r][user_field]

Holder(r) == HolderIn(records, r)

\* self.model.objects.filter(**{self.user_field: request.user.pk})
HeldBy(a) == {r \in Records : Holder(r) = a}

----------------------------------------------------------------------------
\* What a call returns: a value, or the exception it raised.

Returns(v) == [exc |-> "", value |-> v]

Raises(e) == [exc |-> e, value |-> FALSE]

\* is_locked(request, obj): `user.id != request.user.id`, where `user` is the
\* holder read from `obj`; None has no attribute `id`.
is_locked(a, recs, r) ==
    LET user == HolderIn(recs, r) IN
    IF user = None THEN Raises("AttributeError") ELSE Returns(user # a)

\* has_change_permission(request, obj); obj = None is the model-level check.
has_change_permission(a, recs, obj) ==
    IF obj = None THEN Returns(TRUE)
    ELSE LET locked == is_locked(a, recs, obj) IN
         IF locked.exc # "" THEN locked ELSE Returns(~locked.value)

\* has_view_permission if it followed the lock as has_change_permission does.
has_view_permission_unless_locked(a, recs, obj) ==
    Returns(obj = None \/ HolderIn(recs, obj) \in {None, a})

\* has_view_permission(request, obj)
has_view_permission(a, recs, obj) == Returns(TRUE)

\* has_unlock_permission without its `if not self.unlock_record_action_permission`.
has_unlock_permission_always_checked(a) == a \in user_perms

\* has_unlock_permission(request): the user's permissions are read afresh.
has_unlock_permission(a) ==
    IF unlock_record_action_permission = "" THEN TRUE ELSE a \in user_perms

\* super().change_view(request, object_id): the stock change form of the record
\* as the table holds it now; it is editable iff has_change_permission allows,
\* read-only (has_view_permission) otherwise.
SuperChangeView(a, recs, r) ==
    LET change == has_change_permission(a, recs, r) IN
    IF change.exc # "" THEN change.exc
    ELSE IF change.value THEN "edit"
    ELSE IF has_view_permission(a, recs, r).value THEN "readonly"
    ELSE "PermissionDenied"

\* A save that adds the user to what the row holds instead of replacing it.
SaveHolderAdding(recs, a, r) == [recs EXCEPT ![r][user_field] = @ + a]

\* setattr(model, self.user_field, request.user); model.save(update_fields=[...])
SaveHolder(recs, a, r) == [recs EXCEPT ![r][user_field] = a]

\* The branch taken if the lock test ignored who the holder is.
ChangeViewBranchAnyHolder(a, user) ==
    IF user = None THEN "acquire" ELSE "locked"

\* The branch change_view takes for the holder it read: the first `if`, the
\* `elif self.is_locked(...)`, or neither.
ChangeViewBranch(a, user) ==
    IF user = None THEN "acquire"
    ELSE IF user # a THEN "locked"
    ELSE "own"

----------------------------------------------------------------------------
Init ==
    /\ user_field \in FieldNames
    /\ model_fields \in {{user_field}, {user_field, "user"}}
    /\ allow_view_permissions \in BOOLEAN
    /\ max_records_lockable \in 1..MaxQuota
    /\ unlock_record_action_permission \in {"unlock", ""}
    /\ reference_is_str \in BOOLEAN
    /\ records = [r \in Records |->
                    [f \in FieldNames |->
                        IF f \in model_fields /\ f # user_field THEN 1 ELSE None]]
    /\ permission_rows = 0
    /\ user_perms = {}
    /\ allowed_permissions = <<>>
    /\ last = NoRequest
    /\ session = [a \in Actors |-> IdleSession]
    /\ locking_help \in BOOLEAN
    /\ setup = "ok"
    /\ bootstrap = [a \in Actors |-> IdleBootstrap]
    /\ message_seen = {}

----------------------------------------------------------------------------
\* change_view, one request run as a whole.
ChangeView(a, r) ==
    LET user == Holder(r)
        branch == ChangeViewBranch(a, user)
        saved == SaveHolder(records, a, r)
    IN
    /\ records' = IF branch = "acquire" THEN saved ELSE records
    /\ last' =
         IF branch = "acquire"
         THEN Response("change_view", a, {r}, SuperChangeView(a, saved, r), "", None)
         ELSE IF branch = "locked"
         THEN IF ~allow_view_permissions
              THEN Response("change_view", a, {r}, "redirect", "locked_error_msg", None)
              ELSE Response("change_view", a, {r}, SuperChangeView(a, records, r),
                            "locked_error_msg", None)
         ELSE Response("change_view", a, {r}, SuperChangeView(a, records, r), "", None)
    /\ UNCHANGED <<config, setup, bootstrap, message_seen, permission_rows, user_perms, allowed_permissions, session>>

----------------------------------------------------------------------------
\* lock_record

\* queryset.union(<the records the user holds>).count(): UNION keeps one row of
\* each record.
UnionCountAll(a, targets) == Cardinality(targets) + Cardinality(HeldBy(a))

UnionCount(a, targets) == Cardinality(targets \cup HeldBy(a))

\* queryset.first() in place of get(): any record of a non-empty queryset.
QuerysetFirst(targets) ==
    IF targets = {} THEN Raises("DoesNotExist")
    ELSE Returns(CHOOSE r \in targets : TRUE)

\* queryset.get(): the one record of the queryset, else an exception.
QuerysetGet(targets) ==
    IF Cardinality(targets) = 1 THEN Returns(CHOOSE r \in targets : TRUE)
    ELSE IF targets = {} THEN Raises("DoesNotExist")
    ELSE Raises("MultipleObjectsReturned")

\* The quota test: does the count exceed max_records_lockable?
QuotaExceeded(a, targets) == UnionCount(a, targets) > max_records_lockable

LockRecord(a, targets) ==
    LET message == IF QuotaExceeded(a, targets)
                   THEN "max_records_warning_msg" ELSE ""
        record == QuerysetGet(targets)
    IN
    /\ last' = IF record.exc # ""
               THEN Response("lock_record", a, targets, record.exc, message, None)
               ELSE Response("lock_record", a, targets, "redirect", message,
                             record.value)
    /\ UNCHANGED <<config, setup, bootstrap, message_seen, records, permission_rows, user_perms,
                   allowed_permissions, session>>

----------------------------------------------------------------------------
\* unlock_record

\* The admin offers an action carrying `allowed_permissions` only to a user for
\* whom one of the named has_<codename>_permission checks passes; an action
\* without the attribute is offered to everyone.
ActionAllowed(a) ==
    \/ allowed_permissions = <<>>
    \/ \E i \in 1..Len(allowed_permissions) :
           allowed_permissions[i] = "unlock" /\ has_unlock_permission(a)

\* The admin resolves each name of `allowed_permissions` to the method
\* has_<codename>_permission of the instance; the mixin defines that method for
\* "unlock" alone, and getattr raises AttributeError for any other name.
ActionLookupRaises ==
    \E i \in 1..Len(allowed_permissions) : allowed_permissions[i] # "unlock"

\* What the admin of this instance answers a user who asks for the unlock action.
UnlockGate(a) ==
    IF ActionLookupRaises THEN "AttributeError"
    ELSE IF ActionAllowed(a) THEN "allowed"
    ELSE "denied"

\* The loop of unlock_record: `.user = None; .save(update_fields=["user"])`.
ReleaseAll(recs, targets) ==
    [r \in Records |->
        IF r \in targets THEN [recs[r] EXCEPT !["user"] = None] ELSE recs[r]]

\* save(update_fields=["user"]) refuses a name that is no field of the model.
SaveUserFieldRaises(targets) == targets # {} /\ "user" \notin model_fields

\* ", ".join(model_references) takes strings only.
JoinRaises(targets) == targets # {} /\ ~reference_is_str

UnlockRecord(a, targets) ==
    IF ActionLookupRaises
    THEN /\ last' = Response("unlock_record", a, targets, "AttributeError", "", None)
         /\ UNCHANGED <<config, setup, bootstrap, message_seen, records,
                        permission_rows, user_perms, allowed_permissions, session>>
    ELSE IF ~ActionAllowed(a)
    THEN /\ last' = Response("unlock_record", a, targets, "Unauthorized", "", None)
         /\ UNCHANGED <<config, setup, bootstrap, message_seen, records, permission_rows, user_perms,
                        allowed_permissions, session>>
    ELSE IF SaveUserFieldRaises(targets)
    THEN /\ last' = Response("unlock_record", a, targets, "ValueError", "", None)
         /\ UNCHANGED <<config, setup, bootstrap, message_seen, records, permission_rows, user_perms,
                        allowed_permissions, session>>
    ELSE /\ records' = ReleaseAll(records, targets)
         /\ last' = IF JoinRaises(targets)
                    THEN Response("unlock_record", a, targets, "TypeError", "", None)
                    ELSE Response("unlock_record", a, targets, "success",
                                  "unlocked", None)
         /\ UNCHANGED <<config, setup, bootstrap, message_seen, permission_rows, user_perms,
                        allowed_permissions, session>>

----------------------------------------------------------------------------
\* get_model_perms, with _set_unlock_permission and has_unlock_permission
GetModelPerms(a) ==
    IF unlock_record_action_permission = ""
    THEN /\ last' = Response("get_model_perms", a, {}, "no_unlock_perm", "", None)
         /\ UNCHANGED <<config, setup, bootstrap, message_seen, records, permission_rows, user_perms,
                        allowed_permissions, session>>
    ELSE /\ permission_rows' = IF permission_rows = 0 THEN 1 ELSE permission_rows
         /\ allowed_permissions' = <<unlock_record_action_permission>>
         /\ last' = Response("get_model_perms", a, {},
                             IF has_unlock_permission(a) THEN "True" ELSE "False",
                             "", None)
         /\ UNCHANGED <<config, setup, bootstrap, message_seen, records, user_perms, session>>

\* A superuser grants or revokes the stored permission; has_perm reads the
\* user's permissions afresh on each call.
GrantPermission(a) ==
    /\ permission_rows > 0
    /\ a \notin user_perms
    /\ user_perms' = user_perms \cup {a}
    /\ last' = Response("grant", a, {}, "", "", None)
    /\ UNCHANGED <<config, setup, bootstrap, message_seen, records, permission_rows, allowed_permissions, session>>

RevokePermission(a) ==
    /\ a \in user_perms
    /\ user_perms' = user_perms \ {a}
    /\ last' = Response("revoke", a, {}, "", "", None)
    /\ UNCHANGED <<config, setup, bootstrap, message_seen, records, permission_rows, allowed_permissions, session>>

----------------------------------------------------------------------------
\* The read-only hooks the admin calls.

Outcome(result) ==
    IF result.exc # "" THEN result.exc
    ELSE IF result.value THEN "True" ELSE "False"

IsLocked(a, r) ==
    /\ last' = Response("is_locked", a, {r}, Outcome(is_locked(a, records, r)),
                        "", None)
    /\ UNCHANGED <<config, setup, bootstrap, message_seen, records, permission_rows, user_perms,
                   allowed_permissions, session>>

HasChangePermission(a, obj) ==
    /\ last' = Response("has_change_permission", a,
                        IF obj = None THEN {} ELSE {obj},
                        Outcome(has_change_permission(a, records, obj)), "", None)
    /\ UNCHANGED <<config, setup, bootstrap, message_seen, records, permission_rows, user_perms,
                   allowed_permissions, session>>

----------------------------------------------------------------------------
Next ==
    \/ \E a \in Actors, r \in Records : ChangeView(a, r)
    \/ \E a \in Actors, targets \in SUBSET Records : LockRecord(a, targets)
    \/ \E a \in Actors, targets \in SUBSET Records : UnlockRecord(a, targets)
    \/ \E a \in Actors : GetModelPerms(a)
    \/ \E a \in Actors : GrantPermission(a)
    \/ \E a \in Actors : RevokePermission(a)
    \/ \E a \in Actors, r \in Records : IsLocked(a, r)
    \/ \E a \in Actors, obj \in Records \cup {None} : HasChangePermission(a, obj)

Spec == Init /\ [][Next]_vars

----------------------------------------------------------------------------
\* change_view as the requests of two users interleave: the read of the holder
\* (lines 338-339), the branch with its save (341-354) and the stock view
\* (344, 356) are separate steps, and nothing holds the row between them.

\* model = self.model.objects.get(id=object_id); user = getattr(model, ...)
CVGet(a, r) ==
    /\ session[a].at \in {"idle", "done"}
    /\ session' = [session EXCEPT ![a] =
                      [at |-> "got", obj |-> r, user |-> Holder(r), outcome |-> ""]]
    /\ UNCHANGED <<config, setup, bootstrap, message_seen, records, permission_rows, user_perms,
                   allowed_permissions, last>>

\* if not user: save ... elif self.is_locked(request, model): ...
CVBranch(a) ==
    LET s == session[a]
        branch == ChangeViewBranch(a, s.user)
    IN
    /\ s.at = "got"
    /\ records' = IF branch = "acquire" THEN SaveHolder(records, a, s.obj)
                  ELSE records
    /\ session' = [session EXCEPT ![a] =
                      IF branch = "locked" /\ ~allow_view_permissions
                      THEN [s EXCEPT !.at = "done", !.outcome = "redirect"]
                      ELSE [s EXCEPT !.at = "super"]]
    /\ UNCHANGED <<config, setup, bootstrap, message_seen, permission_rows, user_perms, allowed_permissions, last>>

\* return super().change_view(request, object_id)
CVSuper(a) ==
    LET s == session[a] IN
    /\ s.at = "super"
    /\ session' = [session EXCEPT ![a] =
                      [s EXCEPT !.at = "done",
                                !.outcome = SuperChangeView(a, records, s.obj)]]
    /\ UNCHANGED <<config, setup, bootstrap, message_seen, records, permission_rows, user_perms,
                   allowed_permissions, last>>

InitRace ==
    /\ Init
    /\ max_records_lockable = 1
    /\ reference_is_str
    /\ unlock_record_action_permission = ""
    /\ ~locking_help

NextRace ==
    \/ \E a \in Actors, r \in Records : CVGet(a, r)
    \/ \E a \in Actors : CVBranch(a)
    \/ \E a \in Actors : CVSuper(a)
    \/ \E a \in Actors, targets \in SUBSET Records : UnlockRecord(a, targets)

SpecRace == InitRace /\ [][NextRace]_vars

\* The same interleaved opens and unlocks, with the lock action among them, on
\* a model whose holder field is "user" and whose locked records are not viewable
\* (the default).
InitInterleaved ==
    /\ InitRace
    /\ user_field = "user"
    /\ model_fields = {"user"}
    /\ ~allow_view_permissions

NextInterleaved ==
    \/ NextRace
    \/ \E a \in Actors, targets \in SUBSET Records : LockRecord(a, targets)

SpecInterleaved == InitInterleaved /\ [][NextInterleaved]_vars

----------------------------------------------------------------------------
\* The lock and unlock actions and the change view alone, for the quota test of
\* lock_record. The options these three never read, or read only to word a
\* response, are fixed: no unlock permission ("no special controls"), string
\* references, no viewing of a locked record (the default).
InitQuota ==
    /\ Init
    /\ unlock_record_action_permission = ""
    /\ reference_is_str
    /\ ~allow_view_permissions
    /\ ~locking_help

NextQuota ==
    \/ \E a \in Actors, r \in Records : ChangeView(a, r)
    \/ \E a \in Actors, targets \in SUBSET Records : LockRecord(a, targets)
    \/ \E a \in Actors, targets \in SUBSET Records : UnlockRecord(a, targets)

SpecQuota == InitQuota /\ [][NextQuota]_vars

----------------------------------------------------------------------------
\* The unlock permission: has_unlock_permission as a call of its own, and
\* _set_unlock_permission as the calls of two requests interleave between its
\* count (line 160) and its create (lines 161-166).

HasUnlockPermission(a) ==
    /\ last' = Response("has_unlock_permission", a, {},
                        IF has_unlock_permission(a) THEN "True" ELSE "False",
                        "", None)
    /\ UNCHANGED <<config, setup, bootstrap, message_seen, records,
                   permission_rows, user_perms, allowed_permissions, session>>

\* if not Permission.objects.filter(codename=full_codename).count():
SPCount(a) ==
    /\ unlock_record_action_permission # ""
    /\ bootstrap[a].at \in {"idle", "done"}
    /\ bootstrap' = [bootstrap EXCEPT ![a] =
                        [at |-> "counted", count |-> permission_rows,
                         outcome |-> ""]]
    /\ UNCHANGED <<config, setup, message_seen, records, permission_rows,
                   user_perms, allowed_permissions, last, session>>

\* Permission.objects.create(...) when the count read was 0, then the
\* assignment of allowed_permissions. Permission is unique on (content_type,
\* codename): creating a second row raises IntegrityError, which ends the call
\* before the assignment.
SPCreate(a) ==
    LET b == bootstrap[a]
        duplicate == b.count = 0 /\ permission_rows > 0
    IN
    /\ b.at = "counted"
    /\ permission_rows' = IF b.count = 0 /\ ~duplicate
                          THEN permission_rows + 1 ELSE permission_rows
    /\ allowed_permissions' = IF duplicate THEN allowed_permissions
                              ELSE <<unlock_record_action_permission>>
    /\ bootstrap' = [bootstrap EXCEPT ![a] =
                        [b EXCEPT !.at = "done",
                                  !.outcome = IF duplicate THEN "IntegrityError"
                                              ELSE "ok"]]
    /\ UNCHANGED <<config, setup, message_seen, records, user_perms, last,
                   session>>

\* The options the permission code never reads are fixed at their defaults.
InitPerm ==
    /\ Init
    /\ user_field = "user"
    /\ model_fields = {"user"}
    /\ ~allow_view_permissions
    /\ max_records_lockable = 1
    /\ reference_is_str
    /\ ~locking_help

NextPerm ==
    \/ \E a \in Actors : SPCount(a)
    \/ \E a \in Actors : SPCreate(a)
    \/ \E a \in Actors : GetModelPerms(a)
    \/ \E a \in Actors : GrantPermission(a)
    \/ \E a \in Actors : RevokePermission(a)
    \/ \E a \in Actors : HasUnlockPermission(a)

SpecPerm == InitPerm /\ [][NextPerm]_vars

----------------------------------------------------------------------------
\* Construction: __init__ ends with _validate_user_field. Here the options are
\* whatever a project wrote, valid or not, and requests are served only by an
\* instance whose __init__ returned.

\* What hasattr(self.model, name) accepts: the User foreign keys the model
\* declares and "title", a field every model here has that is no relation.
ModelAttributes == model_fields \cup {"title"}

\* _validate_user_field with its first test left out.
validate_user_field_no_hasattr ==
    IF user_field \in ModelAttributes /\ user_field \notin model_fields
    THEN "ValueError" ELSE "ok"

\* _validate_user_field: the field must exist and be a foreign key to User.
validate_user_field ==
    IF user_field \notin ModelAttributes THEN "ValueError"
    ELSE IF user_field \notin model_fields THEN "ValueError"
    ELSE "ok"

Construct ==
    /\ setup = "pending"
    /\ setup' = validate_user_field
    /\ UNCHANGED <<config, bootstrap, message_seen, records, permission_rows,
                   user_perms, allowed_permissions, last, session>>

InitSetup ==
    /\ user_field \in FieldNames \cup {"title"}
    /\ model_fields \in SUBSET FieldNames
    /\ max_records_lockable \in -1..MaxQuota
    /\ allow_view_permissions = FALSE
    /\ unlock_record_action_permission = ""
    /\ reference_is_str = TRUE
    /\ locking_help = FALSE
    /\ records = [r \in Records |->
                    [f \in FieldNames |->
                        IF f \in model_fields /\ f # user_field THEN 1 ELSE None]]
    /\ permission_rows = 0
    /\ user_perms = {}
    /\ allowed_permissions = <<>>
    /\ last = NoRequest
    /\ session = [a \in Actors |-> IdleSession]
    /\ setup = "pending"
    /\ bootstrap = [a \in Actors |-> IdleBootstrap]
    /\ message_seen = {}

NextSetup ==
    \/ Construct
    \/ setup = "ok" /\ \E a \in Actors, r \in Records : ChangeView(a, r)
    \/ setup = "ok" /\ \E a \in Actors, targets \in SUBSET Records :
                           LockRecord(a, targets)
    \/ setup = "ok" /\ \E a \in Actors, targets \in SUBSET Records :
                           UnlockRecord(a, targets)

SpecSetup == InitSetup /\ [][NextSetup]_vars

----------------------------------------------------------------------------
\* The change view with the hooks that decide what it shows, and the unlock
\* action, as whole requests. The options these never read are fixed: no unlock
\* permission, string references, the default quota, no help text.
InitGate ==
    /\ Init
    /\ unlock_record_action_permission = ""
    /\ reference_is_str
    /\ max_records_lockable = 1
    /\ ~locking_help

NextGate ==
    \/ \E a \in Actors, r \in Records : ChangeView(a, r)
    \/ \E a \in Actors, targets \in SUBSET Records : UnlockRecord(a, targets)
    \/ \E a \in Actors, r \in Records : IsLocked(a, r)
    \/ \E a \in Actors, obj \in Records \cup {None} : HasChangePermission(a, obj)

SpecGate == InitGate /\ [][NextGate]_vars

----------------------------------------------------------------------------
\* The hooks that only read the holder, as calls of their own.

\* is_locked_by(obj): "-" for an unheld record, else the holder's full name, or
\* the username when the holder has neither a first nor a last name.
is_locked_by(recs, r, named) ==
    IF HolderIn(recs, r) = None THEN "-"
    ELSE IF ~named THEN "username"
    ELSE "full_name"

IsLockedBy(r, named) ==
    /\ last' = Response("is_locked_by", None, {r}, is_locked_by(records, r, named),
                        "", None)
    /\ UNCHANGED <<config, setup, bootstrap, message_seen, records,
                   permission_rows, user_perms, allowed_permissions, session>>

HasViewPermission(a, obj) ==
    /\ last' = Response("has_view_permission", a,
                        IF obj = None THEN {} ELSE {obj},
                        Outcome(has_view_permission(a, records, obj)), "", None)
    /\ UNCHANGED <<config, setup, bootstrap, message_seen, records,
                   permission_rows, user_perms, allowed_permissions, session>>

\* changelist_view: the help message once per session, then the stock list.
ChangelistView(a) ==
    LET welcome == locking_help /\ a \notin message_seen IN
    /\ message_seen' = IF welcome THEN message_seen \cup {a} ELSE message_seen
    /\ last' = Response("changelist_view", a, {}, "changelist",
                        IF welcome THEN "locking_help" ELSE "", None)
    /\ UNCHANGED <<config, setup, bootstrap, records, permission_rows,
                   user_perms, allowed_permissions, session>>

\* The interleaved opens and the unlock action with the read-only hooks called
\* between their steps, on a model whose holder field is "user", with a help
\* text and without an unlock permission.
InitFrame ==
    /\ Init
    /\ unlock_record_action_permission = ""
    /\ locking_help
    /\ user_field = "user"
    /\ model_fields = {"user"}
    /\ ~allow_view_permissions
    /\ max_records_lockable = 1
    /\ reference_is_str

NextFrame ==
    \/ NextRace
    \/ \E a \in Actors, r \in Records : IsLocked(a, r)
    \/ \E r \in Records, named \in BOOLEAN : IsLockedBy(r, named)
    \/ \E a \in Actors, obj \in Records \cup {None} : HasViewPermission(a, obj)
    \/ \E a \in Actors, obj \in Records \cup {None} : HasChangePermission(a, obj)
    \/ \E a \in Actors : HasUnlockPermission(a)
    \/ \E a \in Actors : GetModelPerms(a)
    \/ \E a \in Actors : ChangelistView(a)

SpecFrame == InitFrame /\ [][NextFrame]_vars

----------------------------------------------------------------------------
\* A second admin class built on the mixin, registered for another model.
\* `unlock_record` is a function of the class AdminLockingMixin, so the
\* attribute `allowed_permissions` set on it (lines 169-171) is the one this
\* instance's action carries too.

\* The unlock permission codenames the other instance may be configured with:
\* none, or one that differs from this instance's.
OtherCapabilities == {"", "release"}

\* __init__ of the other instance: it registers its column and actions on
\* itself and validates its own user field; the gate attribute is not written.
OtherConstruct ==
    /\ last' = Response("other_init", None, {}, "", "", None)
    /\ UNCHANGED <<config, setup, bootstrap, message_seen, records,
                   permission_rows, user_perms, allowed_permissions, session>>

\* get_model_perms of the other instance, whose Permission row belongs to the
\* other model's content type.
OtherGetModelPerms(a, codename) ==
    /\ allowed_permissions' = IF codename = "" THEN allowed_permissions
                              ELSE <<codename>>
    /\ last' = Response("other_get_model_perms", a, {}, "", "", None)
    /\ UNCHANGED <<config, setup, bootstrap, message_seen, records,
                   permission_rows, user_perms, session>>

NextShared ==
    \/ \E a \in Actors, r \in Records : ChangeView(a, r)
    \/ \E a \in Actors, targets \in SUBSET Records : UnlockRecord(a, targets)
    \/ \E a \in Actors : GetModelPerms(a)
    \/ \E a \in Actors : GrantPermission(a)
    \/ \E a \in Actors : RevokePermission(a)
    \/ OtherConstruct
    \/ \E a \in Actors, codename \in OtherCapabilities :
          OtherGetModelPerms(a, codename)

SpecShared == InitPerm /\ [][NextShared]_vars

----------------------------------------------------------------------------
\* Properties

\* The actor and the single record of the last request.
LastActor == last.actor

LastRecord == CHOOSE r \in last.targets : TRUE

\* The unlock action got past the admin's permission filter and ran
\* unlock_record.
UnlockRan == last.op = "unlock_record" /\ last.outcome # "Unauthorized"

\* C1: when two distinct users open the same unheld record concurrently (both
\* read an empty holder), exactly one wins: once both requests are done the
\* record is held by one of them, that one alone was given the editable form,
\* and the other was refused (read-only or redirected).
C1_ExactlyOneWinsRace ==
    \A a, b \in Actors :
        ( /\ a # b
          /\ last.op = "none"
          /\ session[a].at = "done" /\ session[b].at = "done"
          /\ session[a].obj = session[b].obj
          /\ session[a].user = None /\ session[b].user = None )
        => \E w \in {a, b} :
              /\ Holder(session[a].obj) = w
              /\ session[w].outcome = "edit"
              /\ \A l \in {a, b} \ {w} : session[l].outcome \in {"readonly", "redirect"}

\* C2: the lock lifecycle under atomic requests. Opening an unheld record makes
\* the opener its holder and lets them edit; opening a record another user holds
\* refuses the edit and keeps the holder; a holder stays as long as no unlock
\* runs; an unlock that was authorized leaves each selected record unheld (so the
\* next open by another user acquires it).
C2_Lifecycle ==
    [][ /\ \A r \in Records :
             (last'.op = "change_view" /\ last'.targets = {r} /\ Holder(r) = None)
             => (HolderIn(records', r) = last'.actor /\ last'.outcome = "edit")
        /\ \A r \in Records :
             (last'.op = "change_view" /\ last'.targets = {r}
              /\ Holder(r) \notin {None, last'.actor})
             => (HolderIn(records', r) = Holder(r) /\ last'.outcome # "edit")
        /\ \A r \in Records :
             (last'.op # "unlock_record" /\ Holder(r) # None)
             => HolderIn(records', r) = Holder(r)
        /\ \A r \in Records :
             (last'.op = "unlock_record" /\ last'.outcome # "Unauthorized"
              /\ r \in last'.targets)
             => HolderIn(records', r) = None
      ]_vars

\* C3: whenever a record's holder goes from empty to a user, that user then
\* holds at most max_records_lockable records.
C3_QuotaOnGrant ==
    [][ \A a \in Actors, r \in Records :
            (Holder(r) = None /\ HolderIn(records', r) = a)
            => Cardinality({q \in Records : HolderIn(records', q) = a})
                   <= max_records_lockable
      ]_vars

\* C4: with an unlock permission configured, an unlock action by a user who
\* lacks it is rejected as Unauthorized and changes no holder, whatever ran
\* before (get_model_perms or not). Stated for a selection that includes a held
\* record, where an unlock that was let through shows in the table.
C4_UnlockNeedsPermission ==
    [][ ( /\ last'.op = "unlock_record"
          /\ unlock_record_action_permission # ""
          /\ last'.actor \notin user_perms
          /\ \E r \in last'.targets : Holder(r) # None )
        => ( /\ last'.outcome = "Unauthorized"
             /\ \A r \in Records : HolderIn(records', r) = Holder(r) )
      ]_vars

\* C5: is_locked(user, record) returns True iff the record has a holder other
\* than the user, and False (no exception) otherwise.
C5_IsLockedIff ==
    last.op = "is_locked"
    => last.outcome =
         IF Holder(LastRecord) # None /\ Holder(LastRecord) # LastActor
         THEN "True" ELSE "False"

\* C6: has_change_permission(user, record) returns True iff the record is unheld
\* or held by the user, False iff another user holds it; so no held record has
\* two distinct users both allowed to change it.
C6_ChangePermissionIff ==
    /\ (last.op = "has_change_permission" /\ last.targets # {})
       => last.outcome =
            IF Holder(LastRecord) \in {None, LastActor} THEN "True" ELSE "False"
    /\ \A r \in Records : \A a, b \in Actors :
         (a # b /\ Holder(r) # None)
         => ~( /\ Outcome(has_change_permission(a, records, r)) = "True"
               /\ Outcome(has_change_permission(b, records, r)) = "True" )

\* C7: once unlock_record has run on a selection, every selected record is
\* unheld and the action ended without an exception, whatever user_field is
\* configured and whoever held the records (also when they were unheld before).
C7_ReleaseClears ==
    UnlockRan
    => /\ \A r \in last.targets : Holder(r) = None
       /\ last.outcome = "success"

\* C8: when lock_record finds the quota exceeded it warns and goes on: for any
\* non-empty selection it still sends the user to the change view of a record of
\* the selection.
C8_WarnButContinue ==
    ( /\ last.op = "lock_record"
      /\ last.targets # {}
      /\ last.message = "max_records_warning_msg" )
    => (last.outcome = "redirect" /\ last.location \in last.targets)

\* C9: lock_record applies the acquire rule to each selected record, for a
\* selection of any size: a selected record that was unheld is acquired for the
\* user (by the action, or by the change view it redirects to), one held by the
\* user or by another user keeps its holder.
C9_AcquiresEachTarget ==
    [][ last'.op = "lock_record"
        => \A r \in last'.targets :
             IF Holder(r) = None
             THEN \/ HolderIn(records', r) = last'.actor
                  \/ (last'.outcome = "redirect" /\ last'.location = r)
             ELSE HolderIn(records', r) = Holder(r)
      ]_vars

\* C10: lock_record gives the quota warning exactly when the selection and the
\* records the user already holds, counted as one set, number more than
\* max_records_lockable.
C10_WarningIffUnionExceeds ==
    last.op = "lock_record"
    => ( last.message = "max_records_warning_msg"
         <=> Cardinality(last.targets \cup {r \in Records : Holder(r) = LastActor})
                > max_records_lockable )

\* C10 witness: a user re-locks a record they hold, within quota, unwarned.
C10_RelockWithinQuota ==
    /\ last.op = "lock_record"
    /\ last.targets # {}
    /\ \A r \in last.targets : Holder(r) = LastActor
    /\ Cardinality(last.targets) = max_records_lockable
    /\ last.message = ""

\* C11: _set_unlock_permission is idempotent and safe under concurrency: after
\* any number of calls, one after another or interleaved between the count and
\* the create, exactly one Permission row with the codename exists and no call
\* has failed over a duplicate.
C11_BootstrapSafe ==
    \A a \in Actors :
        bootstrap[a].at = "done"
        => (bootstrap[a].outcome = "ok" /\ permission_rows = 1)

\* C14: has_unlock_permission returns True for every user when no permission is
\* configured, and otherwise True iff the user holds the permission at the moment
\* of the call, so a grant or a revocation before the call shows in its result.
C14_UnlockPermissionFresh ==
    last.op = "has_unlock_permission"
    => ( last.outcome = "True"
         <=> ( \/ unlock_record_action_permission = ""
               \/ LastActor \in user_perms ) )

\* C14 witness: a user was granted the configured permission and the call that
\* follows returns True.
C14_GrantSeen ==
    /\ last.op = "has_unlock_permission"
    /\ unlock_record_action_permission # ""
    /\ last.outcome = "True"

\* The configured user_field is missing on the model or is no foreign key to
\* User.
BadUserField == user_field \notin model_fields

C13_AcquireIdempotent ==
    [][ \A a \in Actors, r \in Records :
          (last'.op = "change_view" /\ last'.actor = a /\ last'.targets = {r})
          => /\ Holder(r) \in {None, a}
                => (HolderIn(records', r) = a /\ last'.outcome = "edit")
             /\ (last = Response("change_view", a, {r}, "edit", "", None)
                 /\ Holder(r) = a)
                => (last' = last /\ records' = records)
      ]_vars

\* C13 witness: a user has opened a record, holds it and may edit (the state
\* after one open and after any number of repeated opens).
C13_OpenedByHolder ==
    /\ last.op = "change_view"
    /\ last.outcome = "edit"
    /\ Holder(LastRecord) = LastActor

\* C16: an open of a record held by another user keeps every holder, emits
\* locked_error_msg, never grants the edit, and redirects iff
\* allow_view_permissions is false; when it is true the stock view is shown
\* read-only, has_change_permission being False for that user.
C16_HeldByOther ==
    [][ \A a \in Actors, r \in Records :
          ( /\ last'.op = "change_view" /\ last'.actor = a /\ last'.targets = {r}
            /\ Holder(r) \notin {None, a} )
          => /\ records' = records
             /\ last'.message = "locked_error_msg"
             /\ last'.outcome # "edit"
             /\ (last'.outcome = "redirect" <=> ~allow_view_permissions)
             /\ allow_view_permissions
                => ( /\ last'.outcome = "readonly"
                     /\ Outcome(has_change_permission(a, records', r)) = "False" )
      ]_vars

\* C16 witness: with allow_view_permissions a user was shown, read-only and
\* with the error message, a record another user holds.
C16_ReadOnlyDisplay ==
    /\ last.op = "change_view"
    /\ last.message = "locked_error_msg"
    /\ last.outcome = "readonly"
    /\ Holder(LastRecord) \notin {None, LastActor}

C17_HolderChangesOnlyByAcquireOrRelease ==
    [][ \A r \in Records :
          Holder(r) # HolderIn(records', r)
          => \/ /\ Holder(r) = None
                /\ \E a \in Actors :
                      /\ HolderIn(records', r) = a
                      /\ session[a].at = "got" /\ session[a].obj = r
                      /\ session'[a].at # "got"
             \/ /\ HolderIn(records', r) = None
                /\ last'.op = "unlock_record"
                /\ r \in last'.targets
      ]_vars

\* C18: release is field-scoped: an unlock_record step changes nothing but the
\* holder attribute (user_field) of the selected records.
C18_ReleaseFieldScoped ==
    [][ last'.op = "unlock_record"
        => \A r \in Records, f \in FieldNames :
              records'[r][f] # records[r][f]
              => (r \in last'.targets /\ f = user_field)
      ]_vars

\* C20: lock_record writes no holder, with or without the quota warning; with
\* exactly one selected record it redirects to that record's change view, with
\* none or with two or more it ends in an error and redirects nowhere.
C20_LockPreservesHolders ==
    [][ last'.op = "lock_record"
        => /\ records' = records
           /\ Cardinality(last'.targets) = 1
              => (last'.outcome = "redirect" /\ last'.location \in last'.targets)
           /\ Cardinality(last'.targets) # 1
              => /\ last'.outcome \in {"DoesNotExist", "MultipleObjectsReturned"}
                 /\ last'.location = None
      ]_vars

\* C20 witness: lock_record ran on two or more records while another record
\* was held, warned or not, and ended in MultipleObjectsReturned.
C20_ManyTargetsError ==
    /\ last.op = "lock_record"
    /\ Cardinality(last.targets) >= 2
    /\ last.outcome = "MultipleObjectsReturned"
    /\ \E r \in Records : Holder(r) # None

\* C19: constructing another instance, or running get_model_perms on another
\* instance configured with a different unlock permission or with none, does
\* not change whether a user is allowed to run unlock on this instance.
C19_InstanceIsolation ==
    [][ last'.op \in {"other_init", "other_get_model_perms"}
        => \A a \in Actors : UnlockGate(a)' = UnlockGate(a)
      ]_vars

====
